---- MODULE Spec2Model ----
(***************************************************************************)
(* FlipFile.online: the upload validator (file-validator.js, with the      *)
(* dangerous-name check of security-headers.js), the image-to-PDF          *)
(* converter (tools.js) and the page that calls it (main.js), FlipFile's   *)
(* processing runs (script.js), the drop zone with its memory monitor, and *)
(* the service worker's fetch handler.  Each has its own specification;    *)
(* the variables of the others stay as they start.                         *)
(*                                                                         *)
(* A JavaScript string is a sequence of one-character strings; the bytes   *)
(* of a file and the UTF-16 code units of a decoded text are sequences of  *)
(* integers.                                                               *)
(***************************************************************************)
EXTENDS Integers, Sequences, FiniteSets, TLC

VARIABLES
    file,       \* validateFile: the File under validation
    vpc,        \* validateFile: position in the async function
    errors,     \* validateFile: const errors = []
    result,     \* validateFile: the value the promise resolved with
    images,     \* convertImagesToPdf: images.length
    i,          \* convertImagesToPdf: loop index
    cpc,        \* convertImagesToPdf: position in the async function
    img,        \* convertImagesToPdf: the decoded image of this iteration
    pdf,        \* convertImagesToPdf: the jsPDF document, a sequence of pages
    blob,       \* convertImagesToPdf: what the promise resolved with
    failure,    \* convertImagesToPdf: what the promise rejected with
    attempts,   \* convertImagesToPdf: reads started per image
    currentFiles,   \* FlipFile.state.currentFiles: the ids of the fileData objects
    fileData,       \* FlipFile: the fileData objects made so far, by id
    isProcessing,   \* FlipFile.state.isProcessing
    processedCount, \* FlipFile.state.processedCount
    runs,           \* FlipFile: the processFiles calls that started a run
    intervals,      \* FlipFile: the live setInterval timers of processSingleFile
    deleteTimers,   \* FlipFile: pending 5-minute timers of completeProcessing,
                    \* oldest first, each with the moment it was set
    resetTimers,    \* FlipFile: pending 2-second timers of downloadProcessedFile,
                    \* likewise
    progress,       \* FlipFile: what updateProgressBar last showed
    notification,   \* FlipFile: the type of the notification last shown
    selectedFiles,  \* main.js: let selectedFiles
    selectedTool,   \* main.js: let selectedTool
    mpc,            \* main.js: where the click handler of .process-btn is
    alerted,        \* main.js: what alert() last showed
    href,           \* main.js: downloadBtn.href
    objectUrls,     \* main.js: object URLs created and not revoked
    heap,           \* performance.memory.usedJSHeapSize, or NoSample
    ops,            \* EnhancedDropZone: the arrivals of files, in order
    worker,         \* service worker: which script is registered
    cacheNames,     \* CacheStorage: caches.keys(), each cache named by the
                    \* version number in its CACHE_NAME
    cache,          \* CacheStorage: per cache, the cached version of each URL,
                    \* 0 if none
    active,         \* service worker: the CACHE_NAME of the activated script
    waiting,        \* service worker: the CACHE_NAME of a script installed and
                    \* not yet activated, 0 if none
    server,         \* the version of the site the origin server serves
    request,        \* service worker: the request of the fetch event in hand
    spc,            \* service worker: where the fetch handler is
    matched,        \* service worker: what caches.match resolved with
    netContacted,   \* service worker: whether fetch(event.request) was called
    fetched,        \* service worker: what fetch(event.request) settled with
    returned,       \* service worker: what respondWith was settled with
    puts,           \* service worker: cache.put calls not yet done
    storage,        \* localStorage: the text kept under 'flipfile_session'
    now,            \* Date.now(), in milliseconds
    sessionPc       \* FlipFile.init: whether initSession has run on this page

vvars == <<file, vpc, errors, result>>
cvars == <<images, i, cpc, img, pdf, blob, failure, attempts>>
fvars == <<currentFiles, fileData, isProcessing, processedCount, runs, intervals,
           deleteTimers, resetTimers, progress, notification>>
mvars == <<selectedFiles, selectedTool, mpc, alerted, href, objectUrls>>
dvars == <<heap, ops>>
svars == <<worker, cacheNames, cache, active, waiting, server, request, spc,
           matched, netContacted, fetched, returned, puts>>
evars == <<storage, now, sessionPc>>
vars == <<vvars, cvars, fvars, mvars, dvars, svars, evars>>

\* what the steps of each component leave alone
notValidator == <<cvars, fvars, mvars, dvars, svars, evars>>
notConverter == <<vvars, fvars, mvars, dvars, svars, evars>>
notFlipFile == <<vvars, cvars, mvars, dvars, svars, evars>>
notMain == <<vvars, fvars, dvars, svars, evars>>
notDropZone == <<vvars, cvars, fvars, mvars, svars, evars>>
notWorker == <<vvars, cvars, fvars, mvars, dvars, evars>>
notSession == <<vvars, cvars, mvars, dvars, svars>>

----------------------------------------------------------------------------
(* Bounds of the model *)

\* longest run of white space put between a marker and what follows it
MaxGap == 2
\* largest batch handed to convertImagesToPdf
MaxImages == 3
\* largest small pixel dimension an image decodes to
MaxDim == 2
\* object URLs main.js may have created before the model stops clicking
MaxLinks == 2
\* most files selected on the main.js page
MaxSelected == 2
\* most files of one drop or pick on FlipFile's upload area
MaxSelect == 2
\* most fileData objects FlipFile creates before the model stops selecting
MaxFiles == 3
\* most processing runs FlipFile starts
MaxRuns == 2
\* most 2-second reset timers of downloadProcessedFile pending at once
MaxPending == 1
\* most arrivals of files at the drop zone
MaxArrivals == 2
\* most files of one arrival at the drop zone
MaxDropped == 2
\* most times the clock is moved on while a session is watched
MaxElapsed == 3
\* largest processedCount a session is taken to
MaxCounted == 4
\* most redeployments of the site, and most scripts with a CACHE_NAME of their
\* own, while the service worker is watched
MaxVersion == 3

----------------------------------------------------------------------------
(* Generic helpers *)

Min(a, b) == IF a <= b THEN a ELSE b
Max(a, b) == IF a >= b THEN a ELSE b

Last(s) == s[Len(s)]

\* String.prototype.startsWith / endsWith / includes on sequences
StartsWith(s, p) == Len(p) <= Len(s) /\ SubSeq(s, 1, Len(p)) = p
EndsWith(s, p) == Len(p) <= Len(s) /\ SubSeq(s, Len(s) - Len(p) + 1, Len(s)) = p
Includes(s, p) == \E k \in 1..(Len(s) - Len(p) + 1) : SubSeq(s, k, k + Len(p) - 1) = p

\* Array.prototype.includes
ArrayIncludes(arr, x) == \E k \in 1..Len(arr) : arr[k] = x

UpperLetters == <<"A","B","C","D","E","F","G","H","I","J","K","L","M",
                  "N","O","P","Q","R","S","T","U","V","W","X","Y","Z">>
LowerLetters == <<"a","b","c","d","e","f","g","h","i","j","k","l","m",
                  "n","o","p","q","r","s","t","u","v","w","x","y","z">>

\* String.prototype.toLowerCase / toUpperCase, one character
LowerChar(c) ==
    IF \E k \in 1..26 : UpperLetters[k] = c
    THEN LowerLetters[CHOOSE k \in 1..26 : UpperLetters[k] = c]
    ELSE c
UpperChar(c) ==
    IF \E k \in 1..26 : LowerLetters[k] = c
    THEN UpperLetters[CHOOSE k \in 1..26 : LowerLetters[k] = c]
    ELSE c
toLowerCase(s) == [k \in 1..Len(s) |-> LowerChar(s[k])]
toUpperCase(s) == [k \in 1..Len(s) |-> UpperChar(s[k])]

\* String.prototype.split(sep) for a one-character separator
RECURSIVE SplitFrom(_, _, _, _)
SplitFrom(s, sep, k, cur) ==
    IF k > Len(s) THEN <<cur>>
    ELSE IF s[k] = sep THEN <<cur>> \o SplitFrom(s, sep, k + 1, <<>>)
    ELSE SplitFrom(s, sep, k + 1, Append(cur, s[k]))
split(s, sep) == SplitFrom(s, sep, 1, <<>>)

RECURSIVE Flat(_)
Flat(ss) == IF ss = <<>> THEN <<>> ELSE Head(ss) \o Flat(Tail(ss))

----------------------------------------------------------------------------
(* The File object: name, declared type, and content.  The content is      *)
(* head, then pad filler bytes (spaces, 0x20), then tail; readable is      *)
(* whether a FileReader read of it ends in onload (TRUE) or onerror.       *)

FileSize(f) == Len(f.head) + f.pad + Len(f.tail)

\* Blob.prototype.slice(0, n), bytes; a filler run longer than cap is cut to cap
SliceBytes(f, n, cap) ==
    LET h      == Len(f.head)
        padIn  == Min(f.pad, Max(n - h, 0))
        tailIn == Min(Len(f.tail), Max(n - h - f.pad, 0))
    IN  SubSeq(f.head, 1, Min(h, n)) \o [k \in 1..Min(padIn, cap) |-> 32]
            \o SubSeq(f.tail, 1, tailIn)

----------------------------------------------------------------------------
(* FileValidator *)

maxSize == 100 * 1024 * 1024

allowedTypes_pdf == <<"application/pdf">>
allowedTypes_images ==
    <<"image/jpeg", "image/jpg", "image/png", "image/svg+xml", "image/tiff">>
allowedTypes_office ==
    <<"application/msword",
      "application/vnd.openxmlformats-officedocument.wordprocessingml.document",
      "application/vnd.ms-excel",
      "application/vnd.openxmlformats-officedocument.spreadsheetml.sheet",
      "application/vnd.ms-powerpoint",
      "application/vnd.openxmlformats-officedocument.presentationml.presentation">>

allowedExtensions ==
    << <<"p","d","f">>, <<"j","p","g">>, <<"j","p","e","g">>, <<"p","n","g">>,
       <<"s","v","g">>, <<"t","i","f","f">>, <<"d","o","c">>, <<"d","o","c","x">>,
       <<"x","l","s">>, <<"x","l","s","x">>, <<"p","p","t">>, <<"p","p","t","x">> >>

\* const ext = filename.toLowerCase().split('.').pop()
isAllowedExtension(filename) ==
    ArrayIncludes(allowedExtensions, Last(split(toLowerCase(filename), ".")))

\* Object.values(this.config.allowedTypes).flat().includes(mimeType)
MimeMutEmptyOk(mimeType) ==
    mimeType = "" \/
    ArrayIncludes(Flat(<<allowedTypes_pdf, allowedTypes_images, allowedTypes_office>>),
                  mimeType)
isAllowedMimeType(mimeType) ==
    ArrayIncludes(Flat(<<allowedTypes_pdf, allowedTypes_images, allowedTypes_office>>),
                  mimeType)

HexDigits == <<"0","1","2","3","4","5","6","7","8","9","a","b","c","d","e","f">>

\* Number.prototype.toString(16) of a byte
toString16(b) ==
    IF b < 16 THEN <<HexDigits[b + 1]>>
    ELSE <<HexDigits[(b \div 16) + 1], HexDigits[(b % 16) + 1]>>

\* String.prototype.padStart(2, '0')
padStart2(s) == IF Len(s) >= 2 THEN s ELSE [k \in 1..(2 - Len(s)) |-> "0"] \o s

\* Array.from(arr).map(b => b.toString(16).padStart(2, '0')).join('').toUpperCase()
Header(arr) == toUpperCase(Flat([k \in 1..Len(arr) |-> padStart2(toString16(arr[k]))]))

\* Object.keys(magicNumbers)
magicNumbers ==
    << <<"2","5","5","0","4","4","4","6">>,     \* %PDF
       <<"F","F","D","8","F","F">>,             \* jpg
       <<"8","9","5","0","4","E","4","7">>,     \* png
       <<"3","C","7","3","7","6","6","7">>,     \* <svg
       <<"D","0","C","F","1","1","E","0">>,     \* doc/xls/ppt
       <<"5","0","4","B","0","3","0","4">> >>   \* docx/xlsx/pptx

\* reader.onload of validateMagicNumbers, on file.slice(0, 8)
MagicMutNoPad(f) ==
    LET arr    == SubSeq(SliceBytes(f, 8, 8), 1, Min(4, Len(SliceBytes(f, 8, 8))))
        header == toUpperCase(Flat([k \in 1..Len(arr) |-> toString16(arr[k])]))
    IN  \E m \in 1..Len(magicNumbers) : StartsWith(header, magicNumbers[m])
validateMagicNumbers(f) ==
    LET arr    == SubSeq(SliceBytes(f, 8, 8), 1, Min(4, Len(SliceBytes(f, 8, 8))))
        header == Header(arr)
    IN  \E m \in 1..Len(magicNumbers) : StartsWith(header, magicNumbers[m])

dangerousExtensions ==
    << <<".","e","x","e">>, <<".","b","a","t">>, <<".","c","m","d">>, <<".","s","h">>,
       <<".","p","h","p">>, <<".","j","s">>, <<".","h","t","m","l">>,
       <<".","h","t","m">>, <<".","v","b","s">>, <<".","p","s","1">>,
       <<".","j","a","r">>, <<".","p","y">> >>

\* XSSProtection.validateFile
XSSProtection_validateFile(f) ==
    LET fileName == toLowerCase(f.name)
    IN  ~ \E k \in 1..Len(dangerousExtensions) : EndsWith(fileName, dangerousExtensions[k])

\* FileReader.readAsText: UTF-8 decoding, one code unit per byte.  An ASCII byte
\* decodes to itself; a byte that starts no valid sequence decodes to U+FFFD.
readAsText(bytes) == [k \in 1..Len(bytes) |-> IF bytes[k] < 128 THEN bytes[k] ELSE 65533]

\* the /i flag on an ASCII pattern
LowerCode(c) == IF c >= 65 /\ c <= 90 THEN c + 32 ELSE c

\* \s among the code units readAsText yields here
IsSpace(c) == c \in {9, 10, 11, 12, 13, 32, 160, 65279}

\* /<marker>\s*\//i.test(content), marker given in lower case
RegexTest(content, marker) ==
    \E p \in 1..Len(content) :
        /\ p + Len(marker) - 1 <= Len(content)
        /\ \A k \in 1..Len(marker) : LowerCode(content[p + k - 1]) = marker[k]
        /\ \E q \in (p + Len(marker))..Len(content) :
              /\ content[q] = 47
              /\ \A r \in (p + Len(marker))..(q - 1) : IsSpace(content[r])

PDF_HEADER == <<37, 80, 68, 70>>                                   \* '%PDF'
PDF_FOOTER == <<37, 37, 69, 79, 70>>                               \* '%%EOF'
RE_JAVASCRIPT == <<47, 106, 97, 118, 97, 115, 99, 114, 105, 112, 116>> \* /javascript
RE_JS == <<47, 106, 115>>                                          \* /js
RE_AA == <<47, 97, 97>>                                            \* /aa

\* reader.onload of scanPDF, on file.slice(0, 1024 * 100) read as text.  A run
\* of filler spaces is kept as one space: no pattern tells the two apart.
scanPDF(f) ==
    LET content      == readAsText(SliceBytes(f, 1024 * 100, 1))
        hasPDFHeader == Includes(content, PDF_HEADER)
        hasPDFFooter == Includes(content, PDF_FOOTER)
        hasJS        == \/ RegexTest(content, RE_JAVASCRIPT)
                        \/ RegexTest(content, RE_JS)
                        \/ RegexTest(content, RE_AA)
    IN  hasPDFHeader /\ hasPDFFooter /\ ~hasJS

\* scanForMalware: only a file declared application/pdf is scanned
scanForMalware(f) == IF f.type = "application/pdf" THEN scanPDF(f) ELSE TRUE

\* whether scanForMalware starts a FileReader read
ScanReads(f) == f.type = "application/pdf"

sizes == <<"Bytes", "KB", "MB", "GB">>

RECURSIVE Pow1024(_)
Pow1024(e) == IF e = 0 THEN 1 ELSE 1024 * Pow1024(e - 1)

\* formatBytes: i = floor(log(bytes) / log(1024)); Math.round ignores its
\* second argument and rounds half up to an integer
formatBytes(bytes) ==
    IF bytes = 0 THEN "0 Byte"
    ELSE LET e == CHOOSE e \in 0..3 :
                     Pow1024(e) <= bytes /\ (e = 3 \/ bytes < Pow1024(e + 1))
             q == (2 * bytes + Pow1024(e)) \div (2 * Pow1024(e))
         IN  ToString(q) \o " " \o sizes[e + 1]

REASON_SIZE == "File too large (max " \o formatBytes(maxSize) \o ")"
REASON_EXT == "File type not allowed"
REASON_MIME == "File MIME type not allowed"
REASON_MAGIC == "File signature mismatch"
REASON_XSS == "File contains potentially dangerous content"
REASON_SCAN == "File failed security scan"

\* if (<check failed>) { errors.push(reason) }
PushMutOverwrite(errs, failed, reason) == IF failed THEN <<reason>> ELSE errs
Push(errs, failed, reason) == IF failed THEN Append(errs, reason) ELSE errs

\* file.size > this.config.maxSize
SizeMutGE(f) == FileSize(f) >= maxSize
TooLarge(f) == FileSize(f) > maxSize

\* 1. Size validation
CheckSize ==
    /\ vpc = "size"
    /\ errors' = Push(errors, TooLarge(file), REASON_SIZE)
    /\ vpc' = "ext"
    /\ UNCHANGED <<file, result>>
    /\ UNCHANGED notValidator

\* 2. Extension validation
CheckExtension ==
    /\ vpc = "ext"
    /\ errors' = Push(errors, ~isAllowedExtension(file.name), REASON_EXT)
    /\ vpc' = "mime"
    /\ UNCHANGED <<file, result>>
    /\ UNCHANGED notValidator

\* 3. MIME type validation
CheckMimeType ==
    /\ vpc = "mime"
    /\ errors' = Push(errors, ~isAllowedMimeType(file.type), REASON_MIME)
    /\ vpc' = "magic"
    /\ UNCHANGED <<file, result>>
    /\ UNCHANGED notValidator

\* 4. Magic number validation: await validateMagicNumbers(file).  The promise
\* resolves in reader.onload only; no onerror handler settles it.
CheckMagicNumbers ==
    /\ vpc = "magic"
    /\ file.readable
    /\ errors' = Push(errors, ~validateMagicNumbers(file), REASON_MAGIC)
    /\ vpc' = "xss"
    /\ UNCHANGED <<file, result>>
    /\ UNCHANGED notValidator

\* 5. XSS validation
CheckXSS ==
    /\ vpc = "xss"
    /\ errors' = Push(errors, ~XSSProtection_validateFile(file), REASON_XSS)
    /\ vpc' = "scan"
    /\ UNCHANGED <<file, result>>
    /\ UNCHANGED notValidator

\* 6. Malware scanning: await scanForMalware(file)
CheckMalware ==
    /\ vpc = "scan"
    /\ ScanReads(file) => file.readable
    /\ errors' = Push(errors, ~scanForMalware(file), REASON_SCAN)
    /\ vpc' = "return"
    /\ UNCHANGED <<file, result>>
    /\ UNCHANGED notValidator

\* return { isValid: errors.length === 0, errors, file }
Return ==
    /\ vpc = "return"
    /\ result' = [isValid |-> Len(errors) = 0, errors |-> errors, file |-> file]
    /\ vpc' = "done"
    /\ UNCHANGED <<file, errors>>
    /\ UNCHANGED notValidator

NoResult == [isValid |-> FALSE, errors |-> <<>>, file |-> <<>>]


----------------------------------------------------------------------------
(* Exact arithmetic for the page geometry: a positive rational is <<n, d>>  *)
(* in lowest terms.  JavaScript computes the same expressions in IEEE-754   *)
(* doubles, which differ from these by rounding only.                       *)

RECURSIVE GCD(_, _)
GCD(a, b) == IF b = 0 THEN a ELSE GCD(b, a % b)

Rat(n, d) == <<n \div GCD(n, d), d \div GCD(n, d)>>

\* a * b and a / b, reduced before multiplying
RatMul(a, b) ==
    LET g1 == GCD(a[1], b[2])
        g2 == GCD(b[1], a[2])
    IN  <<(a[1] \div g1) * (b[1] \div g2), (a[2] \div g2) * (b[2] \div g1)>>
RatDiv(a, b) == RatMul(a, <<b[2], b[1]>>)

\* a/b < c/d by continued fractions, so that no product is formed
RECURSIVE FracLess(_, _, _, _)
FracLess(a, b, c, d) ==
    IF a \div b # c \div d THEN a \div b < c \div d
    ELSE IF c % d = 0 THEN FALSE
    ELSE IF a % b = 0 THEN TRUE
    ELSE FracLess(d, c % d, b, a % b)
RatLess(x, y) == FracLess(x[1], x[2], y[1], y[2])
RatLE(x, y) == ~RatLess(y, x)

\* Math.min
RatMin(x, y) == IF RatLess(y, x) THEN y ELSE x
RatMax(x, y) == IF RatLess(y, x) THEN x ELSE y

----------------------------------------------------------------------------
(* convertImagesToPdf (tools.js) *)

\* 2.83465 points per millimetre
POINTS_PER_MM == Rat(283465, 100000)
A4_WIDTH == RatMul(<<210, 1>>, POINTS_PER_MM)
A4_HEIGHT == RatMul(<<297, 1>>, POINTS_PER_MM)

\* const scale = Math.min(A4_WIDTH / width, A4_HEIGHT / height)
ScaleMutMax(width, height) ==
    RatMax(RatDiv(A4_WIDTH, <<width, 1>>), RatDiv(A4_HEIGHT, <<height, 1>>))
Scale(width, height) ==
    RatMin(RatDiv(A4_WIDTH, <<width, 1>>), RatDiv(A4_HEIGHT, <<height, 1>>))

\* if (i > 0) { pdf.addPage(); }
AddPageMutAlways(idx) == idx >= 0
NeedsNewPage(idx) == idx > 0

\* new jsPDF(): a document of one blank page
NewPdf == << <<>> >>

\* pdf.addPage(): a blank page becomes the last and the current page
addPage(doc) == Append(doc, <<>>)

\* pdf.addImage(dataUrl, 'JPEG', 0, 0, width, height) on the current page
addImage(doc, placed) == [doc EXCEPT ![Len(doc)] = Append(@, placed)]

NoImg == [width |-> 0, height |-> 0]
NoBlob == <<"none">>

\* the pixel dimensions an image may decode to
Dims ==
    {<<w, h>> : w \in 1..MaxDim, h \in 1..MaxDim}
        \cup {<<70, 99>>, <<100, 50>>, <<50, 100>>}

\* convertImagesToPdf(images): const pdf = new jsPDF(); let i = 0
ConvertCall ==
    /\ cpc = "idle"
    /\ pdf' = NewPdf
    /\ i' = 0
    /\ cpc' = "loop"
    /\ UNCHANGED <<images, img, blob, failure, attempts>>
    /\ UNCHANGED notConverter

\* i < images.length: const dataUrl = await readFileAsDataURL(image)
LoopNext ==
    /\ cpc = "loop"
    /\ i < Len(images)
    /\ attempts' = [attempts EXCEPT ![i + 1] = @ + 1]
    /\ cpc' = "read"
    /\ UNCHANGED <<images, i, img, pdf, blob, failure>>
    /\ UNCHANGED notConverter

\* reader.onload: resolve(reader.result); const img = await loadImage(dataUrl)
ReadResolve ==
    /\ cpc = "read"
    /\ cpc' = "load"
    /\ UNCHANGED <<images, i, img, pdf, blob, failure, attempts>>
    /\ UNCHANGED notConverter

\* reader.onerror = reject: the await throws, the async function rejects
ReadRejectMutSkip ==
    /\ cpc = "read"
    /\ failure' = "read"
    /\ i' = i + 1
    /\ cpc' = "loop"
    /\ UNCHANGED <<images, img, pdf, blob, attempts>>
    /\ UNCHANGED notConverter
ReadReject ==
    /\ cpc = "read"
    /\ failure' = "read"
    /\ cpc' = "rejected"
    /\ UNCHANGED <<images, i, img, pdf, blob, attempts>>
    /\ UNCHANGED notConverter

\* img.onload: resolve(img)
LoadResolve ==
    /\ cpc = "load"
    /\ \E d \in Dims : img' = [width |-> d[1], height |-> d[2]]
    /\ cpc' = "place"
    /\ UNCHANGED <<images, i, pdf, blob, failure, attempts>>
    /\ UNCHANGED notConverter

\* img.onerror = reject
LoadReject ==
    /\ cpc = "load"
    /\ failure' = "decode"
    /\ cpc' = "rejected"
    /\ UNCHANGED <<images, i, img, pdf, blob, attempts>>
    /\ UNCHANGED notConverter

\* width *= scale; height *= scale; addPage unless first; addImage; i++
PlaceImage ==
    /\ cpc = "place"
    /\ LET scale  == Scale(img.width, img.height)
           placed == [image  |-> images[i + 1],
                      width  |-> RatMul(<<img.width, 1>>, scale),
                      height |-> RatMul(<<img.height, 1>>, scale),
                      img    |-> img]
       IN  pdf' = addImage(IF NeedsNewPage(i) THEN addPage(pdf) ELSE pdf, placed)
    /\ i' = i + 1
    /\ cpc' = "loop"
    /\ UNCHANGED <<images, img, blob, failure, attempts>>
    /\ UNCHANGED notConverter

\* return pdf.output('blob')
Output ==
    /\ cpc = "loop"
    /\ ~(i < Len(images))
    /\ blob' = pdf
    /\ cpc' = "resolved"
    /\ UNCHANGED <<images, i, img, pdf, failure, attempts>>
    /\ UNCHANGED notConverter


----------------------------------------------------------------------------
(* main.js: the selection, the tool, and the click handler of .process-btn *)

\* btn.dataset.tool of the tool buttons; the switch of the click handler has
\* a case for 'image-to-pdf' only
Tools == {"image-to-pdf", "pdf-to-word"}

NoLink == [url |-> 0, images |-> 0]

\* function handleFiles(files): selectedFiles = Array.from(files)
MainHandleFiles ==
    /\ \E n \in 0..MaxSelected : selectedFiles' = [k \in 1..n |-> k]
    /\ UNCHANGED <<selectedTool, mpc, alerted, href, objectUrls>>
    /\ UNCHANGED cvars
    /\ UNCHANGED notMain

\* click on a .tool-btn: selectedTool = btn.dataset.tool
MainSelectTool ==
    /\ \E t \in Tools : selectedTool' = t
    /\ UNCHANGED <<selectedFiles, mpc, alerted, href, objectUrls>>
    /\ UNCHANGED cvars
    /\ UNCHANGED notMain

\* if (selectedFiles.length === 0) { alert('Please select files'); return; }
NoFilesMutNever == FALSE
NoFilesSelected == Len(selectedFiles) = 0

\* click on .process-btn, no conversion of an earlier click being awaited:
\* the two guards, then the switch; convertImagesToPdf(selectedFiles) runs to
\* its first await, and with any other tool resultBlob stays undefined and
\* URL.createObjectURL(resultBlob) throws
MainClick ==
    /\ mpc # "awaiting"
    /\ objectUrls < MaxLinks
    /\ IF selectedTool = "null"
       THEN /\ alerted' = "Please select a tool"
            /\ mpc' = "returned"
            /\ UNCHANGED cvars
       ELSE IF NoFilesSelected
       THEN /\ alerted' = "Please select files"
            /\ mpc' = "returned"
            /\ UNCHANGED cvars
       ELSE IF selectedTool = "image-to-pdf"
       THEN /\ images' = selectedFiles
            /\ attempts' = [k \in 1..Len(selectedFiles) |-> 0]
            /\ pdf' = NewPdf
            /\ i' = 0
            /\ img' = NoImg
            /\ blob' = NoBlob
            /\ failure' = "none"
            /\ cpc' = "loop"
            /\ mpc' = "awaiting"
            /\ UNCHANGED alerted
       ELSE /\ mpc' = "threw"
            /\ UNCHANGED alerted
            /\ UNCHANGED cvars
    /\ UNCHANGED <<selectedFiles, selectedTool, href, objectUrls>>
    /\ UNCHANGED notMain

\* resultBlob = await convertImagesToPdf(...) resolved:
\* const url = URL.createObjectURL(resultBlob); downloadBtn.href = url.
\* The link is kept as the number of its URL and the number of images its
\* blob was converted from
MainShowLink ==
    /\ mpc = "awaiting"
    /\ cpc = "resolved"
    /\ objectUrls' = objectUrls + 1
    /\ href' = [url |-> objectUrls + 1, images |-> Len(images)]
    /\ mpc' = "linked"
    /\ UNCHANGED <<selectedFiles, selectedTool, alerted>>
    /\ UNCHANGED cvars
    /\ UNCHANGED notMain

\* the await throws what convertImagesToPdf rejected with; the handler has no
\* try/catch and ends there
MainRejected ==
    /\ mpc = "awaiting"
    /\ cpc = "rejected"
    /\ mpc' = "rejected"
    /\ UNCHANGED <<selectedFiles, selectedTool, alerted, href, objectUrls>>
    /\ UNCHANGED cvars
    /\ UNCHANGED notMain


----------------------------------------------------------------------------
(* FlipFile (script.js): the selection, the processing runs and their timers *)
(*                                                                         *)
(* A fileData object lives in fileData under its id, with the one field the *)
(* code ever changes (status), and currentFiles holds ids: the code         *)
(* replaces the array and mutates the objects.  A run is one                *)
(* processFiles call that got past its two guards; it holds the loop's i    *)
(* and where the call is: "await" on the promise of processSingleFile,      *)
(* "hung" when that promise can no longer settle, "completed" after         *)
(* completeProcessing.  Its other fields are history: files is the list it  *)
(* started on, done the files it marked 'processed', cancelled whether      *)
(* cancelProcessing ran while it was awaiting, interrupted whether a        *)
(* cancel, a download or a new selection came while it was awaiting.        *)

maxFileSize == 100 * 1024 * 1024

allowedFileTypes ==
    << "application/pdf", "image/jpeg", "image/jpg", "image/png",
       "image/svg+xml", "image/tiff", "application/msword",
       "application/vnd.openxmlformats-officedocument.wordprocessingml.document",
       "application/vnd.ms-excel",
       "application/vnd.openxmlformats-officedocument.spreadsheetml.sheet",
       "application/vnd.ms-powerpoint",
       "application/vnd.openxmlformats-officedocument.presentationml.presentation" >>

\* processSingleFile: const totalTime, const interval, const steps
totalTime == 3000
interval == 100
steps == totalTime \div interval

MSG_TOO_BIG == "exceeds maximum size of 100MB"
MSG_BAD_TYPE == "is not supported"

\* showError(message), showSuccess(message): the type showNotification is
\* given, which is all the model keeps of the notification on screen
showError == "error"
showSuccess == "success"

\* validateAndAddFile(file): the error it shows, "" when it adds the file
AddFileError(f) ==
    IF f.size > maxFileSize THEN MSG_TOO_BIG
    ELSE IF ~ArrayIncludes(allowedFileTypes, f.type) THEN MSG_BAD_TYPE
    ELSE ""

AcceptedMutAnyType(f) == f.size <= maxFileSize
Accepted(f) == AddFileError(f) = ""

\* the files the user may drop or pick: one of exactly the largest size, one
\* a byte larger, one of a type not listed
FFFiles ==
    { [size |-> maxFileSize, type |-> "image/png"],
      [size |-> maxFileSize + 1, type |-> "application/pdf"],
      [size |-> 1, type |-> "text/plain"] }

Selections == UNION { [1..n -> FFFiles] : n \in 0..MaxSelect }

\* the moment setTimeout is called, as the number of files added until then.
\* Timers of one delay fire in the order set.
Now == Len(fileData)

\* history: a cancel, a download or a new selection reached the awaiting runs
Interrupt(rs, cancel) ==
    [r \in DOMAIN rs |->
        IF rs[r].pc = "await"
        THEN [rs[r] EXCEPT !.interrupted = TRUE,
                           !.cancelled = @ \/ cancel]
        ELSE rs[r]]

\* handleFiles(files), as what it leaves behind: nothing changes on an empty
\* list; else currentFiles = [] and validateAndAddFile on each file in turn,
\* which pushes a new fileData {size, type, status: 'pending'} or shows an error
handleFiles(files) ==
    IF Len(files) = 0
    THEN [currentFiles |-> currentFiles, fileData |-> fileData]
    ELSE LET added == SelectSeq(files, Accepted)
         IN  [currentFiles |-> [k \in 1..Len(added) |-> Len(fileData) + k],
              fileData |-> fileData \o
                  [k \in 1..Len(added) |->
                      [size |-> added[k].size, type |-> added[k].type,
                       status |-> "pending"]]]

\* a drop or a change of the file input calls handleFiles
HandleFiles ==
    /\ \E files \in Selections :
          /\ Len(fileData) + Len(SelectSeq(files, Accepted)) <= MaxFiles
          /\ currentFiles' = handleFiles(files).currentFiles
          /\ fileData' = handleFiles(files).fileData
          /\ notification' =
                 IF \E k \in 1..Len(files) : ~Accepted(files[k])
                 THEN showError ELSE notification
          /\ runs' = IF Len(files) = 0 THEN runs ELSE Interrupt(runs, FALSE)
    /\ UNCHANGED <<isProcessing, processedCount, intervals, deleteTimers,
                   resetTimers, progress>>
    /\ UNCHANGED notFlipFile

\* the loop body at index idx of list: await this.processSingleFile(fileData, i),
\* whose executor starts one interval timer with currentStep = 0
StartMutAll(r, idx, list) ==
    { [run |-> r, file |-> list[k + 1], index |-> k, step |-> 0] :
        k \in idx..(Len(list) - 1) }
Start(r, idx, list) ==
    { [run |-> r, file |-> list[idx + 1], index |-> idx, step |-> 0] }

\* updateProgressBar(percentage, text): the percentage as numerator and
\* denominator (a denominator of 0 is the Infinity or NaN of the division)
Percentage(num, den) == [num |-> num, den |-> den, cancelled |-> FALSE]
ProgressCancelled == [num |-> 0, den |-> 1, cancelled |-> TRUE]

\* processFiles(): returns if isProcessing; shows an error and returns if no
\* file is selected; else sets the flag, counts the run, resets the progress
\* bar and enters the loop at i = 0
ProcessFiles ==
    /\ IF isProcessing
       THEN UNCHANGED <<isProcessing, processedCount, runs, intervals, progress,
                        notification>>
       ELSE IF Len(currentFiles) = 0
       THEN /\ notification' = showError
            /\ UNCHANGED <<isProcessing, processedCount, runs, intervals, progress>>
       ELSE /\ Len(runs) < MaxRuns
            /\ isProcessing' = TRUE
            /\ processedCount' = processedCount + 1
            /\ progress' = Percentage(0, 1)
            /\ runs' = Append(runs, [pc |-> "await", index |-> 0,
                                     files |-> currentFiles, done |-> <<>>,
                                     cancelled |-> FALSE, interrupted |-> FALSE])
            /\ intervals' = intervals \cup Start(Len(runs) + 1, 0, currentFiles)
            /\ UNCHANGED notification
    /\ UNCHANGED <<currentFiles, fileData, deleteTimers, resetTimers>>
    /\ UNCHANGED notFlipFile

\* updateProgress, the callback of an interval timer t.  With the flag down it
\* clears its timer and the promise is never resolved.  Otherwise it counts a
\* step and updates the bar from the live currentFiles.length; on the last
\* step it clears its timer, marks its fileData 'processed' and resolves, and
\* the awaiting loop goes on: i++, then the next file, or completeProcessing
\* (flag down, success shown, deleteProcessedFiles scheduled in 5 minutes)
Tick ==
    \E t \in intervals :
      LET r == t.run
          n == t.step + 1
          next == runs[r].index + 1
      IN
      /\ IF ~isProcessing
         THEN /\ intervals' = intervals \ {t}
              /\ runs' = [runs EXCEPT ![r].pc = "hung"]
              /\ UNCHANGED <<fileData, isProcessing, deleteTimers, progress,
                             notification>>
         ELSE /\ progress' = Percentage(t.index * totalTime + n * interval,
                                        Len(currentFiles) * totalTime)
              /\ IF n < steps
                 THEN /\ intervals' = (intervals \ {t}) \cup {[t EXCEPT !.step = n]}
                      /\ UNCHANGED <<fileData, isProcessing, deleteTimers,
                                     notification, runs>>
                 ELSE /\ fileData' = [fileData EXCEPT ![t.file].status = "processed"]
                      /\ IF next < Len(currentFiles)
                         THEN /\ intervals' = (intervals \ {t})
                                     \cup Start(r, next, currentFiles)
                              /\ runs' = [runs EXCEPT
                                     ![r].index = next,
                                     ![r].done = Append(@, t.file)]
                              /\ UNCHANGED <<isProcessing, deleteTimers,
                                             notification>>
                         ELSE /\ intervals' = intervals \ {t}
                              /\ runs' = [runs EXCEPT
                                     ![r].index = next,
                                     ![r].done = Append(@, t.file),
                                     ![r].pc = "completed"]
                              /\ isProcessing' = FALSE
                              /\ notification' = showSuccess
                              /\ deleteTimers' = Append(deleteTimers, Now)
      /\ UNCHANGED <<currentFiles, processedCount, resetTimers>>
      /\ UNCHANGED notFlipFile

\* cancelProcessing(): flag down, progress bar reset, currentFiles = []
cancelProcessing ==
    /\ isProcessing' = FALSE
    /\ progress' = ProgressCancelled
    /\ currentFiles' = <<>>
    /\ runs' = Interrupt(runs, TRUE)

\* click on cancelBtn (or Escape)
CancelClick ==
    /\ cancelProcessing
    /\ UNCHANGED <<fileData, processedCount, intervals, deleteTimers, resetTimers,
                   notification>>
    /\ UNCHANGED notFlipFile

\* downloadProcessedFile(): an error if no file is selected; else the object
\* URL is created, clicked and revoked, 'Download started!' is shown and
\* cancelProcessing is scheduled in 2 seconds
DownloadProcessedFile ==
    /\ IF Len(currentFiles) = 0
       THEN /\ notification' = showError
            /\ UNCHANGED <<resetTimers, runs>>
       ELSE /\ Len(resetTimers) < MaxPending
            /\ notification' = showSuccess
            /\ resetTimers' = Append(resetTimers, Now)
            /\ runs' = Interrupt(runs, FALSE)
    /\ UNCHANGED <<currentFiles, fileData, isProcessing, processedCount, intervals,
                   deleteTimers, progress>>
    /\ UNCHANGED notFlipFile

\* the 2-second timer of downloadProcessedFile fires
ResetTimerFires ==
    /\ Len(resetTimers) > 0
    /\ resetTimers' = Tail(resetTimers)
    /\ cancelProcessing
    /\ UNCHANGED <<fileData, processedCount, intervals, deleteTimers, notification>>
    /\ UNCHANGED notFlipFile

\* the 5-minute timer of completeProcessing fires: deleteProcessedFiles()
DeleteTimerFires ==
    /\ Len(deleteTimers) > 0
    /\ deleteTimers' = Tail(deleteTimers)
    /\ currentFiles' = <<>>
    /\ UNCHANGED <<fileData, isProcessing, processedCount, runs, intervals,
                   resetTimers, progress, notification>>
    /\ UNCHANGED notFlipFile


----------------------------------------------------------------------------
(* EnhancedDropZone and MemoryMonitor *)
(*                                                                         *)
(* An arrival of a non-empty file list is kept in ops with how it came (by  *)
(* drop or by the file input), the heap sample of that moment, how often    *)
(* processor.processFile was called on its first file, where it stands     *)
(* ("refused", "awaiting", "resolved", "rejected"), the notification shown  *)
(* for it and whether its result was downloaded.                            *)

\* performance.memory is undefined
NoSample == 0 - 1

\* this.memoryLimit = 500 * 1024 * 1024; this.criticalThreshold = 0.9
memoryLimit == 500 * 1024 * 1024
criticalThreshold == <<9, 10>>

\* isMemoryCritical(): usedJSHeapSize > memoryLimit * criticalThreshold if
\* performance.memory exists, else false.  The double product is 471859200
\* exactly, as is the rational one
CriticalMutGE(sample) ==
    IF sample # NoSample
    THEN RatLE(RatMul(<<memoryLimit, 1>>, criticalThreshold), <<sample, 1>>)
    ELSE FALSE
isMemoryCritical(sample) ==
    IF sample # NoSample
    THEN RatLess(RatMul(<<memoryLimit, 1>>, criticalThreshold), <<sample, 1>>)
    ELSE FALSE

\* the heap samples the browser may report
HeapSamples ==
    { NoSample, 0, 450 * 1024 * 1024 - 1, 450 * 1024 * 1024,
      450 * 1024 * 1024 + 1, memoryLimit }

\* usedJSHeapSize changes
HeapChanges ==
    /\ \E h \in HeapSamples : heap' = h
    /\ UNCHANGED ops
    /\ UNCHANGED notDropZone

\* processFiles(files): nothing on an empty list; else the first file goes
\* to this.processor.processFile and the call awaits it
processFiles(n, by) ==
    IF n = 0
    THEN UNCHANGED ops
    ELSE ops' = Append(ops, [by |-> by, heap |-> heap, calls |-> 1,
                             state |-> "awaiting", note |-> "none",
                             downloaded |-> FALSE])

\* handleDrop(e): a warning and return if isMemoryCritical(), else
\* processFiles(e.dataTransfer.files)
HandleDrop ==
    /\ Len(ops) < MaxArrivals
    /\ \E n \in 0..MaxDropped :
          IF isMemoryCritical(heap)
          THEN ops' = Append(ops, [by |-> "drop", heap |-> heap, calls |-> 0,
                                   state |-> "refused", note |-> "warning",
                                   downloaded |-> FALSE])
          ELSE processFiles(n, "drop")
    /\ UNCHANGED heap
    /\ UNCHANGED notDropZone

\* handleFileSelect(e): processFiles(e.target.files)
HandleFileSelect ==
    /\ Len(ops) < MaxArrivals
    /\ \E n \in 0..MaxDropped : processFiles(n, "select")
    /\ UNCHANGED heap
    /\ UNCHANGED notDropZone

\* the awaited processor.processFile(file) resolves: handleSuccess shows the
\* success and downloadResult creates, clicks and revokes an object URL
ProcessorResolves ==
    /\ \E k \in DOMAIN ops :
          /\ ops[k].state = "awaiting"
          /\ ops' = [ops EXCEPT ![k].state = "resolved",
                                ![k].note = "success",
                                ![k].downloaded = TRUE]
    /\ UNCHANGED heap
    /\ UNCHANGED notDropZone

\* the awaited processor.processFile(file) rejects: catch (error), and
\* handleError shows the error
ProcessorRejectsMutRetry ==
    /\ \E k \in DOMAIN ops :
          /\ ops[k].state = "awaiting"
          /\ ops[k].calls < 2
          /\ ops' = [ops EXCEPT ![k].calls = @ + 1]
    /\ UNCHANGED heap
    /\ UNCHANGED notDropZone
ProcessorRejects ==
    /\ \E k \in DOMAIN ops :
          /\ ops[k].state = "awaiting"
          /\ ops' = [ops EXCEPT ![k].state = "rejected",
                                ![k].note = "error"]
    /\ UNCHANGED heap
    /\ UNCHANGED notDropZone


----------------------------------------------------------------------------
(* The service worker: sw.js (after main.js) and the script kept in          *)
(* serviceWorkerScript of script.js.  A response is where it came from, its *)
(* URL, the version of the site it carries and its status.                  *)

CDN_CSS == "https://cdnjs.cloudflare.com/ajax/libs/font-awesome/6.4.0/css/all.min.css"

\* the requests a page makes: the navigation, a precached asset, a
\* same-origin URL that is not precached, a navigation to a page that is not
\* precached, a precached cross-origin asset
Requests ==
    { [url |-> "/", cross |-> FALSE, mode |-> "navigate"],
      [url |-> "/script.js", cross |-> FALSE, mode |-> "no-cors"],
      [url |-> "/api/upload", cross |-> FALSE, mode |-> "cors"],
      [url |-> "/about.html", cross |-> FALSE, mode |-> "navigate"],
      [url |-> CDN_CSS, cross |-> TRUE, mode |-> "no-cors"] }

Urls == { r.url : r \in Requests }

\* PRECACHE_ASSETS and urlsToCache, as far as the requests above go
PRECACHE_ASSETS == { "/", "/script.js", CDN_CSS }

Workers == { "sw.js", "serviceWorkerScript" }

NoRequest == [url |-> "", cross |-> FALSE, mode |-> ""]
NoResponse == [source |-> "none", url |-> "", version |-> 0, status |-> 0]
Response(source, url, version, status) ==
    [source |-> source, url |-> url, version |-> version, status |-> status]

\* the cache names a script may carry
CacheNames == 1..MaxVersion

NoEntries == [u \in Urls |-> 0]

\* caches.match(url): the response of the first cache, in the order of
\* caches.keys(), that holds one, or undefined
CachesMatchMutMiss(url) == NoResponse
CachesMatch(url) ==
    LET holders == { n \in cacheNames : cache[n][url] > 0 }
    IN  IF holders = {} THEN NoResponse
        ELSE LET first == CHOOSE n \in holders : \A m \in holders : n <= m
             IN  Response("cache", url, cache[first][url], 200)

\* install: caches.open(CACHE_NAME).then(cache => cache.addAll(PRECACHE_ASSETS))
\* by a new script whose CACHE_NAME was bumped; the cache is created and,
\* all assets fetched, filled
WorkerInstalls ==
    /\ waiting = 0
    /\ active < MaxVersion
    /\ waiting' = active + 1
    /\ cacheNames' = cacheNames \cup {active + 1}
    /\ cache' = [cache EXCEPT ![active + 1] =
                     [u \in Urls |-> IF u \in PRECACHE_ASSETS THEN server ELSE 0]]
    /\ UNCHANGED <<worker, active, server, request, spc, matched, netContacted,
                   fetched, returned, puts>>
    /\ UNCHANGED notWorker

\* install, one asset not fetched: addAll rejects and adds nothing, the cache
\* caches.open made stays, the new script is discarded
WorkerInstallFails ==
    /\ waiting = 0
    /\ active < MaxVersion
    /\ cacheNames' = cacheNames \cup {active + 1}
    /\ UNCHANGED <<worker, cache, active, waiting, server, request, spc, matched,
                   netContacted, fetched, returned, puts>>
    /\ UNCHANGED notWorker

\* cacheNames.map(cacheName => { if (cacheName !== CACHE_NAME) return
\* caches.delete(cacheName); }): the caches left
KeptMutAll(names, name) == names
Kept(names, name) == { n \in names : ~(n # name) }

\* activate, once the script before it has no request in hand and is
\* terminated: caches.keys(), then every cache of another name is deleted
WorkerActivates ==
    /\ waiting > 0
    /\ spc \in {"idle", "responded", "unhandled"}
    /\ active' = waiting
    /\ waiting' = 0
    /\ cacheNames' = Kept(cacheNames, waiting)
    /\ cache' = [n \in CacheNames |->
                    IF n \in Kept(cacheNames, waiting) THEN cache[n] ELSE NoEntries]
    /\ puts' = {}
    /\ UNCHANGED <<worker, server, request, spc, matched, netContacted, fetched,
                   returned>>
    /\ UNCHANGED notWorker

\* the site is redeployed
ServerUpdates ==
    /\ server < MaxVersion
    /\ server' = server + 1
    /\ UNCHANGED <<worker, cacheNames, cache, active, waiting, request, spc,
                   matched, netContacted, fetched, returned, puts>>
    /\ UNCHANGED notWorker

\* if (!event.request.url.startsWith(self.location.origin)) return;
\* (sw.js only).  A request the handler returns on is left to the browser
Handled(w, req) == w = "serviceWorkerScript" \/ ~req.cross

\* a fetch event, the one before it answered: the handler returns, or calls
\* event.respondWith(caches.match(event.request).then(...))
FetchEvent ==
    /\ spc \in {"idle", "responded", "unhandled"}
    /\ \E req \in Requests :
          /\ request' = req
          /\ spc' = IF Handled(worker, req) THEN "matching" ELSE "unhandled"
    /\ matched' = NoResponse
    /\ netContacted' = FALSE
    /\ fetched' = NoResponse
    /\ returned' = NoResponse
    /\ UNCHANGED <<worker, cacheNames, cache, active, waiting, server, puts>>
    /\ UNCHANGED notWorker

\* if (cachedResponse) return cachedResponse;      (sw.js)
\* return response || fetch(event.request);        (serviceWorkerScript)
ServedMutNetworkFirst(m) == FALSE
ServedFromCache(m) == m # NoResponse

\* caches.match resolves: the cached response is returned, or
\* fetch(event.request) is called
MatchResolves ==
    /\ spc = "matching"
    /\ matched' = CachesMatch(request.url)
    /\ IF ServedFromCache(matched')
       THEN /\ returned' = matched'
            /\ spc' = "responded"
            /\ UNCHANGED netContacted
       ELSE /\ netContacted' = TRUE
            /\ spc' = "fetching"
            /\ UNCHANGED returned
    /\ UNCHANGED <<worker, cacheNames, cache, active, waiting, server, request,
                   fetched, puts>>
    /\ UNCHANGED notWorker

\* the fetch resolves with the server's response, which is returned; sw.js
\* first starts cache.put of a clone if the status is 200 and the type basic
\* (every request it handles is same-origin)
NetworkResponds ==
    /\ spc = "fetching"
    /\ \E status \in {200, 404} :
          LET response == Response("network", request.url, server, status)
          IN  /\ fetched' = response
              /\ returned' = response
              /\ puts' = IF worker = "sw.js" /\ status = 200
                         THEN puts \cup {response} ELSE puts
    /\ spc' = "responded"
    /\ UNCHANGED <<worker, cacheNames, cache, active, waiting, server, request,
                   matched, netContacted>>
    /\ UNCHANGED notWorker

\* the fetch rejects (offline).  sw.js: .catch returns caches.match('/') for a
\* navigation and new Response('You are offline') otherwise;
\* serviceWorkerScript has no catch and respondWith gets the rejection
NetworkFails ==
    /\ spc = "fetching"
    /\ fetched' = Response("error", request.url, 0, 0)
    /\ returned' =
          IF worker = "sw.js"
          THEN IF request.mode = "navigate" THEN CachesMatch("/")
               ELSE Response("offline", request.url, 0, 200)
          ELSE fetched'
    /\ spc' = "responded"
    /\ UNCHANGED <<worker, cacheNames, cache, active, waiting, server, request,
                   matched, netContacted, puts>>
    /\ UNCHANGED notWorker

\* caches.open(CACHE_NAME).then(cache => cache.put(event.request, clone))
CachePut ==
    /\ \E p \in puts :
          /\ cacheNames' = cacheNames \cup {active}
          /\ cache' = [cache EXCEPT ![active][p.url] = p.version]
          /\ puts' = puts \ {p}
    /\ UNCHANGED <<worker, active, waiting, server, request, spc, matched,
                   netContacted, fetched, returned>>
    /\ UNCHANGED notWorker


----------------------------------------------------------------------------
(* FlipFile session management: initSession, saveSession, resetSession      *)
(*                                                                         *)
(* The text kept in localStorage is a sequence of JSON tokens; JSON.parse   *)
(* and JSON.stringify work on these tokens.  A JavaScript value is a record *)
(* of its type and, for a number, the number.                               *)

sessionDuration == 30

\* this.config.sessionDuration * 60 * 1000
SessionMs == sessionDuration * 60 * 1000

\* Date.now() when the model starts watching
Epoch == 1000000000

Punct(c) == [k |-> "punct", s |-> c, n |-> 0]
Str(c) == [k |-> "string", s |-> c, n |-> 0]
Num(v) == [k |-> "number", s |-> "", n |-> v]
Word(c) == [k |-> "word", s |-> c, n |-> 0]

Undefined == [t |-> "undefined", n |-> 0]
Number(v) == [t |-> "number", n |-> v]
String == [t |-> "string", n |-> 0]
Null == [t |-> "null", n |-> 0]

\* localStorage.getItem gives null
NoItem == << Word("none") >>

\* JSON.stringify({processedCount: count, timestamp: at})
JSONstringify(count, at) ==
    << Punct("{"), Str("processedCount"), Punct(":"), Num(count), Punct(","),
       Str("timestamp"), Punct(":"), Num(at), Punct("}") >>

\* a JSON value of one token
IsScalar(tok) == tok.k \in {"number", "string"} \/ tok = Word("null")

ValueOf(tok) ==
    IF tok.k = "number" THEN Number(tok.n)
    ELSE IF tok.k = "string" THEN String
    ELSE Null

\* the tokens between the braces are members "key" : value, separated by ','
IsMembers(inner) ==
    \/ Len(inner) = 0
    \/ /\ Len(inner) % 4 = 3
       /\ \A j \in 1..Len(inner) :
             CASE j % 4 = 1 -> inner[j].k = "string"
               [] j % 4 = 2 -> inner[j] = Punct(":")
               [] j % 4 = 3 -> IsScalar(inner[j])
               [] OTHER     -> inner[j] = Punct(",")

IsObject(text) ==
    /\ Len(text) >= 2
    /\ text[1] = Punct("{")
    /\ text[Len(text)] = Punct("}")
    /\ IsMembers(SubSeq(text, 2, Len(text) - 1))

\* JSON.parse(text) returns, rather than throws a SyntaxError
Parses(text) == IsObject(text) \/ (Len(text) = 1 /\ IsScalar(text[1]))

\* sessionData.key of the parsed text: undefined if it is no object or has no
\* such member (the last member of a name wins)
Member(text, key) ==
    IF ~IsObject(text) THEN Undefined
    ELSE LET at == { j \in 2..(Len(text) - 1) :
                        j % 4 = 2 /\ text[j] = Str(key) }
         IN  IF at = {} THEN Undefined
             ELSE ValueOf(text[(CHOOSE j \in at : \A m \in at : m <= j) + 2])

\* value || 0, for a count
OrZero(value) == IF value.t = "number" THEN value.n ELSE 0

\* Date.now() - (sessionData.timestamp || 0) > sessionDuration * 60 * 1000;
\* a timestamp that is a string makes the age NaN, and NaN > x is false
ExpiredMutGE(stamp) ==
    IF stamp.t = "string" THEN FALSE ELSE now - OrZero(stamp) >= SessionMs
Expired(stamp) ==
    IF stamp.t = "string" THEN FALSE ELSE now - OrZero(stamp) > SessionMs

\* what localStorage may hold when the page is loaded: sessions saved at
\* several ages with several counts, and texts saveSession never writes
StoredTexts ==
    { NoItem, <<>>,
      << Punct("{"), Str("processedCount"), Punct(":") >>,
      << Word("null") >>, << Num(5) >>,
      << Punct("{"), Punct("}") >>,
      << Punct("{"), Str("processedCount"), Punct(":"), Num(3), Punct("}") >>,
      << Punct("{"), Str("timestamp"), Punct(":"), Num(Epoch), Punct("}") >>,
      << Punct("{"), Str("processedCount"), Punct(":"), Num(3), Punct(","),
         Str("timestamp"), Punct(":"), Str("soon"), Punct("}") >> }
      \cup { JSONstringify(count, Epoch - age) :
               count \in {0, 3},
               age \in {0 - 1, 0, 1, SessionMs - 1, SessionMs, SessionMs + 1} }

\* initSession(): with a saved session, the count is taken from it, and
\* resetSession() is called if it is expired or if the try block throws
\* (JSON.parse on a text that does not parse, a property read on null)
InitSession ==
    /\ sessionPc = "loading"
    /\ sessionPc' = "ready"
    /\ IF storage \in {NoItem, <<>>}
       THEN UNCHANGED <<processedCount, storage>>
       ELSE IF ~Parses(storage) \/ storage = << Word("null") >>
       THEN processedCount' = 0 /\ storage' = NoItem
       ELSE IF Expired(Member(storage, "timestamp"))
       THEN processedCount' = 0 /\ storage' = NoItem
       ELSE /\ processedCount' = OrZero(Member(storage, "processedCount"))
            /\ UNCHANGED storage
    /\ UNCHANGED <<currentFiles, fileData, isProcessing, runs, intervals,
                   deleteTimers, resetTimers, progress, notification, now>>
    /\ UNCHANGED notSession

\* saveSession(), every minute: setItem stores the count and the time, or
\* throws and the error is logged
SaveSession ==
    /\ sessionPc = "ready"
    /\ \E stored \in BOOLEAN :
          storage' = IF stored THEN JSONstringify(processedCount, now)
                     ELSE storage
    /\ UNCHANGED <<fvars, now, sessionPc>>
    /\ UNCHANGED notSession

\* time passes: a millisecond, or the length of a session; at most
\* MaxElapsed such steps
TimePasses ==
    /\ ((now - Epoch) \div SessionMs) + ((now - Epoch) % SessionMs) < MaxElapsed
    /\ \E d \in {1, SessionMs} : now' = now + d
    /\ UNCHANGED <<fvars, storage, sessionPc>>
    /\ UNCHANGED notSession

\* the page is loaded, or loaded again: a new FlipFile, whose init() calls
\* initSession()
PageLoads ==
    /\ sessionPc' = "loading"
    /\ currentFiles' = <<>>
    /\ fileData' = <<>>
    /\ isProcessing' = FALSE
    /\ processedCount' = 0
    /\ runs' = <<>>
    /\ intervals' = {}
    /\ deleteTimers' = <<>>
    /\ resetTimers' = <<>>
    /\ progress' = Percentage(0, 1)
    /\ notification' = "none"
    /\ UNCHANGED <<storage, now>>
    /\ UNCHANGED notSession


----------------------------------------------------------------------------
(* The files validateFile is given *)

Names ==
    { <<"a",".","p","d","f">>,                    \* a.pdf
      <<"A",".","P","D","F">>,                    \* A.PDF
      <<"a",".","P","n","G">>,                    \* a.PnG
      <<"p","d","f">>,                            \* pdf
      <<"r","e","a","d","m","e">>,                \* readme
      <<"a",".","t","x","t">>,                    \* a.txt
      <<"a",".">>,                                \* a.
      <<"a",".","p","d","f",".","e","x","e">>,    \* a.pdf.exe
      <<"a",".","J","S">>,                        \* a.JS
      <<"a",".","e","x","e",".","p","d","f">>,    \* a.exe.pdf
      <<"a",".","t","i","f","f">>,                \* a.tiff
      <<"a",".","d","o","c","x">> }               \* a.docx

Types ==
    { "application/pdf", "image/png", "image/jpg", "image/tiff", "",
      "text/plain", "application/x-msdownload",
      "application/vnd.openxmlformats-officedocument.wordprocessingml.document" }

SIG_PDF == <<37, 80, 68, 70>>
SIG_PNG == <<137, 80, 78, 71>>

Signatures ==
    { SIG_PDF, SIG_PNG,
      <<255, 216, 255>>, <<255, 216, 255, 224>>,   \* JPEG SOI, 3 and 4 bytes
      <<60, 115, 118, 103>>,                       \* <svg
      <<208, 207, 17, 224>>,                       \* OLE2
      <<80, 75, 3, 4>>,                            \* ZIP
      <<71, 73, 70, 56>>,                          \* GIF8
      <<73, 73, 42, 0>>,                           \* TIFF, little endian
      <<77, 90, 144, 0>>,                          \* MZ
      <<37, 80, 68>>, <<255, 216>>, <<80>>, <<>>,  \* shorter than a signature
      <<37, 80, 68, 71>>, <<80, 75, 48, 52>>,      \* %PDG, PK04
      <<32, 37, 80, 68, 70>> }                     \* ' %PDF'

Markers ==
    { <<47, 74, 83>>, <<47, 106, 115>>,                               \* /JS /js
      <<47, 74, 97, 118, 97, 83, 99, 114, 105, 112, 116>>,            \* /JavaScript
      <<47, 106, 97, 118, 97, 115, 99, 114, 105, 112, 116>>,          \* /javascript
      <<47, 65, 65>>, <<47, 97, 65>>,                                 \* /AA /aA
      <<47, 74>>, <<74, 83>> }                                        \* /J JS

\* what follows a marker: '/', '(', ' 5 0 R', '<<', nothing
Followers == { <<47>>, <<40>>, <<53, 32, 48, 32, 82>>, <<60, 60>>, <<>> }

WhiteSpace == {32, 10}

Gaps == UNION { [1..n -> WhiteSpace] : n \in 0..MaxGap }

Bodies == {<<>>} \cup { <<32>> \o m \o g \o fo : m \in Markers, g \in Gaps, fo \in Followers }

Tails == { <<>>, PDF_FOOTER, <<37, 37, 69, 79>> }

PadModes == {"none", "one", "slice", "under", "at", "over"}

\* the filler length that gives the file the size the mode names
PadFor(mode, head, tail) ==
    CASE mode = "none"  -> 0
      [] mode = "one"   -> 1
      [] mode = "slice" -> 1024 * 100
      [] mode = "under" -> maxSize - 1 - Len(head) - Len(tail)
      [] mode = "at"    -> maxSize - Len(head) - Len(tail)
      [] mode = "over"  -> maxSize + 1 - Len(head) - Len(tail)

MkFile(name, type, head, mode, tail, readable) ==
    [name |-> name, type |-> type, head |-> head, pad |-> PadFor(mode, head, tail),
     tail |-> tail, readable |-> readable]

\* every name, declared type and size, on a few contents
FilesByName ==
    { MkFile(n, t, h, m, PDF_FOOTER, r) :
        n \in Names, t \in Types, h \in {SIG_PDF, SIG_PNG, <<71, 73, 70, 56>>},
        m \in PadModes, r \in {TRUE} }

\* every leading byte sequence
FilesBySignature ==
    { MkFile(n, t, h, m, tl, r) :
        n \in {<<"a",".","p","d","f">>, <<"a",".","P","n","G">>},
        t \in {"application/pdf", "image/png"}, h \in Signatures,
        m \in {"none", "one"}, tl \in {<<>>, PDF_FOOTER}, r \in BOOLEAN }

\* every body, with and without header and footer
FilesByBody ==
    { MkFile(n, t, h \o b, m, tl, r) :
        n \in {<<"a",".","p","d","f">>},
        t \in {"application/pdf", "image/png"}, h \in {SIG_PDF, SIG_PNG},
        b \in Bodies, m \in {"none", "slice"}, tl \in Tails, r \in {TRUE} }

\* each allowed extension with its allowed MIME type and the bytes a genuine
\* file of that format begins with (TIFF: 'II*\0' or 'MM\0*')
Formats ==
    { [ext |-> <<"p","d","f">>, type |-> "application/pdf", sig |-> SIG_PDF],
      [ext |-> <<"j","p","g">>, type |-> "image/jpeg", sig |-> <<255, 216, 255, 224>>],
      [ext |-> <<"j","p","e","g">>, type |-> "image/jpg", sig |-> <<255, 216, 255, 225>>],
      [ext |-> <<"p","n","g">>, type |-> "image/png", sig |-> SIG_PNG],
      [ext |-> <<"s","v","g">>, type |-> "image/svg+xml", sig |-> <<60, 115, 118, 103>>],
      [ext |-> <<"t","i","f","f">>, type |-> "image/tiff", sig |-> <<73, 73, 42, 0>>],
      [ext |-> <<"t","i","f","f">>, type |-> "image/tiff", sig |-> <<77, 77, 0, 42>>],
      [ext |-> <<"d","o","c">>, type |-> "application/msword",
       sig |-> <<208, 207, 17, 224>>],
      [ext |-> <<"d","o","c","x">>,
       type |-> "application/vnd.openxmlformats-officedocument.wordprocessingml.document",
       sig |-> <<80, 75, 3, 4>>],
      [ext |-> <<"x","l","s">>, type |-> "application/vnd.ms-excel",
       sig |-> <<208, 207, 17, 224>>],
      [ext |-> <<"x","l","s","x">>,
       type |-> "application/vnd.openxmlformats-officedocument.spreadsheetml.sheet",
       sig |-> <<80, 75, 3, 4>>],
      [ext |-> <<"p","p","t">>, type |-> "application/vnd.ms-powerpoint",
       sig |-> <<208, 207, 17, 224>>],
      [ext |-> <<"p","p","t","x">>,
       type |-> "application/vnd.openxmlformats-officedocument.presentationml.presentation",
       sig |-> <<80, 75, 3, 4>>] }

\* a genuine file of every allowed format, readable or not
FilesByFormat ==
    { MkFile(<<"a", ".">> \o fm.ext, fm.type, fm.sig, m, PDF_FOOTER, r) :
        fm \in Formats, m \in {"none", "one"}, r \in BOOLEAN }

Files == FilesByName \cup FilesBySignature \cup FilesByBody \cup FilesByFormat

ValidatorIdle ==
    /\ file = MkFile(<<>>, "", <<>>, "none", <<>>, TRUE)
    /\ vpc = "idle"
    /\ errors = <<>>
    /\ result = NoResult

ConverterIdle ==
    /\ images = <<>>
    /\ i = 0
    /\ cpc = "off"
    /\ img = NoImg
    /\ pdf = <<>>
    /\ blob = NoBlob
    /\ failure = "none"
    /\ attempts = <<>>

\* FlipFile.state as declared, no timer pending, nothing shown
FlipFileIdle ==
    /\ currentFiles = <<>>
    /\ fileData = <<>>
    /\ isProcessing = FALSE
    /\ processedCount = 0
    /\ runs = <<>>
    /\ intervals = {}
    /\ deleteTimers = <<>>
    /\ resetTimers = <<>>
    /\ progress = Percentage(0, 1)
    /\ notification = "none"

\* new EnhancedDropZone(): nothing has arrived
DropZoneIdle ==
    /\ heap = NoSample
    /\ ops = <<>>

\* no page of FlipFile loaded, nothing stored
SessionIdle ==
    /\ storage = NoItem
    /\ now = Epoch
    /\ sessionPc = "off"

\* no service worker in the picture
WorkerIdle ==
    /\ worker = "none"
    /\ cacheNames = {}
    /\ cache = [n \in CacheNames |-> NoEntries]
    /\ active = 0
    /\ waiting = 0
    /\ server = 1
    /\ request = NoRequest
    /\ spc = "off"
    /\ matched = NoResponse
    /\ netContacted = FALSE
    /\ fetched = NoResponse
    /\ returned = NoResponse
    /\ puts = {}

MainIdle ==
    /\ selectedFiles = <<>>
    /\ selectedTool = "null"
    /\ mpc = "idle"
    /\ alerted = "none"
    /\ href = NoLink
    /\ objectUrls = 0

\* validateFile(file): const errors = []
InitValidator ==
    /\ SessionIdle
    /\ file \in Files
    /\ vpc = "size"
    /\ errors = <<>>
    /\ result = NoResult
    /\ ConverterIdle
    /\ FlipFileIdle
    /\ MainIdle
    /\ DropZoneIdle
    /\ WorkerIdle

NextValidator ==
    \/ CheckSize
    \/ CheckExtension
    \/ CheckMimeType
    \/ CheckMagicNumbers
    \/ CheckXSS
    \/ CheckMalware
    \/ Return

SpecValidator == InitValidator /\ [][NextValidator]_vars

\* convertImagesToPdf(images) on a batch of 0..MaxImages files
InitConvert ==
    /\ SessionIdle
    /\ ValidatorIdle
    /\ FlipFileIdle
    /\ MainIdle
    /\ DropZoneIdle
    /\ WorkerIdle
    /\ \E n \in 0..MaxImages :
          /\ images = [k \in 1..n |-> k]
          /\ attempts = [k \in 1..n |-> 0]
    /\ i = 0
    /\ cpc = "idle"
    /\ img = NoImg
    /\ pdf = <<>>
    /\ blob = NoBlob
    /\ failure = "none"

NextConvert ==
    \/ ConvertCall
    \/ LoopNext
    \/ ReadResolve
    \/ ReadReject
    \/ LoadResolve
    \/ LoadReject
    \/ PlaceImage
    \/ Output

SpecConvert == InitConvert /\ [][NextConvert]_vars

\* main.js loaded: let selectedFiles = []; let selectedTool = null
InitMain ==
    /\ SessionIdle
    /\ ValidatorIdle
    /\ ConverterIdle
    /\ FlipFileIdle
    /\ MainIdle
    /\ DropZoneIdle
    /\ WorkerIdle
    /\ DropZoneIdle

NextMain ==
    \/ MainHandleFiles
    \/ MainSelectTool
    \/ MainClick
    \/ LoopNext
    \/ ReadResolve
    \/ ReadReject
    \/ LoadResolve
    \/ LoadReject
    \/ PlaceImage
    \/ Output
    \/ MainShowLink
    \/ MainRejected

SpecMain == InitMain /\ [][NextMain]_vars

\* script.js loaded and FlipFile.init() done, no session restored
InitFlipFile ==
    /\ SessionIdle
    /\ ValidatorIdle
    /\ ConverterIdle
    /\ FlipFileIdle
    /\ MainIdle
    /\ DropZoneIdle
    /\ WorkerIdle
    /\ DropZoneIdle

NextFlipFile ==
    \/ HandleFiles
    \/ ProcessFiles
    \/ Tick
    \/ CancelClick
    \/ DownloadProcessedFile
    \/ ResetTimerFires
    \/ DeleteTimerFires

SpecFlipFile == InitFlipFile /\ [][NextFlipFile]_vars

\* new EnhancedDropZone(), in a browser with or without performance.memory
InitDropZone ==
    /\ SessionIdle
    /\ ValidatorIdle
    /\ ConverterIdle
    /\ FlipFileIdle
    /\ MainIdle
    /\ WorkerIdle
    /\ heap \in HeapSamples
    /\ ops = <<>>

NextDropZone ==
    \/ HeapChanges
    \/ HandleDrop
    \/ HandleFileSelect
    \/ ProcessorResolves
    \/ ProcessorRejects

SpecDropZone == InitDropZone /\ [][NextDropZone]_vars

\* one of the two workers is installed and active: cache.addAll has cached
\* the precache list from version 1 of the site
InitWorker ==
    /\ SessionIdle
    /\ ValidatorIdle
    /\ ConverterIdle
    /\ FlipFileIdle
    /\ MainIdle
    /\ DropZoneIdle
    /\ worker \in Workers
    /\ cacheNames = {1}
    /\ cache = [n \in CacheNames |->
                   [u \in Urls |-> IF n = 1 /\ u \in PRECACHE_ASSETS THEN 1 ELSE 0]]
    /\ active = 1
    /\ waiting = 0
    /\ server = 1
    /\ request = NoRequest
    /\ spc = "idle"
    /\ matched = NoResponse
    /\ netContacted = FALSE
    /\ fetched = NoResponse
    /\ returned = NoResponse
    /\ puts = {}

NextWorker ==
    \/ ServerUpdates
    \/ WorkerInstalls
    \/ WorkerInstallFails
    \/ WorkerActivates
    \/ FetchEvent
    \/ MatchResolves
    \/ NetworkResponds
    \/ NetworkFails
    \/ CachePut

SpecWorker == InitWorker /\ [][NextWorker]_vars

\* a page of FlipFile about to be loaded, with whatever localStorage holds;
\* on the page the user selects files, starts runs and cancels them
InitSessions ==
    /\ ValidatorIdle
    /\ ConverterIdle
    /\ FlipFileIdle
    /\ MainIdle
    /\ DropZoneIdle
    /\ WorkerIdle
    /\ storage \in StoredTexts
    /\ now = Epoch
    /\ sessionPc = "loading"

\* init() attaches the page's handlers and calls initSession() in one task, so
\* no event is handled before initSession() has run; runs are counted up to
\* MaxCounted over all the pages of a session
UserSelects == sessionPc = "ready" /\ HandleFiles
UserProcesses == sessionPc = "ready" /\ processedCount < MaxCounted /\ ProcessFiles
UserCancels == sessionPc = "ready" /\ CancelClick

NextSession ==
    \/ InitSession
    \/ SaveSession
    \/ TimePasses
    \/ PageLoads
    \/ UserSelects
    \/ UserProcesses
    \/ UserCancels

SpecSession == InitSessions /\ [][NextSession]_vars


----------------------------------------------------------------------------
(* Properties of validateFile, under SpecValidator *)

\* the whole content, a filler run kept as one space
Content(f) == SliceBytes(f, FileSize(f), 1)

\* the first n bytes of the file as they are, n small
LeadingBytes(f, n) == SliceBytes(f, n, n)

\* the reasons of the checks that fail on f, in the order of the checks
ExpectedReasons(f) ==
    (IF FileSize(f) > maxSize THEN <<REASON_SIZE>> ELSE <<>>)
        \o (IF ~isAllowedExtension(f.name) THEN <<REASON_EXT>> ELSE <<>>)
        \o (IF ~isAllowedMimeType(f.type) THEN <<REASON_MIME>> ELSE <<>>)
        \o (IF ~validateMagicNumbers(f) THEN <<REASON_MAGIC>> ELSE <<>>)
        \o (IF ~XSSProtection_validateFile(f) THEN <<REASON_XSS>> ELSE <<>>)
        \o (IF ~scanForMalware(f) THEN <<REASON_SCAN>> ELSE <<>>)

\* C1: validateFile never short-circuits. The reasons it returns are exactly
\* the reasons of the checks that failed (size, extension, MIME, signature,
\* dangerous name, security scan), one each, in that order, and the file is
\* accepted if and only if there is none.
C1_AllChecksAccumulate ==
    vpc = "done" =>
        /\ result.errors = ExpectedReasons(file)
        /\ result.isValid <=> (result.errors = <<>>)

\* a result with five reasons: every check but the scan failed
C1_Witness ==
    /\ vpc = "done"
    /\ Len(result.errors) = 5
    /\ ~result.isValid

\* C2: the size reason is among the reasons if and only if the file is
\* strictly larger than 100 MiB (104857600 bytes); a larger file is rejected.
C2_SizeLimit ==
    vpc = "done" =>
        /\ ArrayIncludes(result.errors, "File too large (max 100 MB)")
              <=> (FileSize(file) > 104857600)
        /\ FileSize(file) > 104857600 => ~result.isValid

\* a file one byte over the ceiling was rejected for its size
C2_Witness ==
    /\ vpc = "done"
    /\ FileSize(file) = 104857601
    /\ ArrayIncludes(result.errors, "File too large (max 100 MB)")
    /\ ~result.isValid

\* the extension of a name: what follows its last '.', none without a '.'
HasDot(name) == \E k \in 1..Len(name) : name[k] = "."
AllowListedExtension(name) ==
    /\ HasDot(name)
    /\ Last(split(toLowerCase(name), ".")) \in
          { <<"p","d","f">>, <<"j","p","g">>, <<"j","p","e","g">>, <<"p","n","g">>,
            <<"s","v","g">>, <<"t","i","f","f">>, <<"d","o","c">>,
            <<"d","o","c","x">>, <<"x","l","s">>, <<"x","l","s","x">>,
            <<"p","p","t">>, <<"p","p","t","x">> }

\* C3: a file whose extension is not in the allow-list, a name without a '.'
\* included, is rejected with 'File type not allowed', whatever its declared
\* type, size and content.
C3_ExtensionRejected ==
    (vpc = "done" /\ ~AllowListedExtension(file.name)) =>
        /\ ArrayIncludes(result.errors, "File type not allowed")
        /\ ~result.isValid

\* C4: a file whose first 4 bytes are 25 50 44 46 and whose content lacks
\* '%%EOF' is rejected with 'File failed security scan'.
C4_PdfWithoutFooterRejected ==
    (/\ vpc = "done"
     /\ LeadingBytes(file, 4) = <<37, 80, 68, 70>>
     /\ ~Includes(Content(file), <<37, 37, 69, 79, 70>>)) =>
        /\ ArrayIncludes(result.errors, "File failed security scan")
        /\ ~result.isValid

\* a marker anywhere in the text, in any letter case, whatever follows it
ContainsMarker(text, marker) ==
    \E p \in 1..(Len(text) - Len(marker) + 1) :
        \A k \in 1..Len(marker) : LowerCode(text[p + k - 1]) = marker[k]

\* C5: a PDF (declared application/pdf, beginning with %PDF) whose first
\* 100 KiB contain '/JavaScript', '/JS' or '/AA' in any letter case is
\* rejected with 'File failed security scan', whatever follows the marker.
C5_ScriptMarkerRejected ==
    (/\ vpc = "done"
     /\ file.type = "application/pdf"
     /\ LeadingBytes(file, 4) = <<37, 80, 68, 70>>
     /\ LET text == readAsText(SliceBytes(file, 102400, 1))
        IN  \/ ContainsMarker(text, <<47, 106, 97, 118, 97, 115, 99, 114, 105, 112, 116>>)
            \/ ContainsMarker(text, <<47, 106, 115>>)
            \/ ContainsMarker(text, <<47, 97, 97>>)) =>
        /\ ArrayIncludes(result.errors, "File failed security scan")
        /\ ~result.isValid

\* the six signatures, as bytes
ByteSignatures ==
    { <<37, 80, 68, 70>>, <<255, 216, 255>>, <<137, 80, 78, 71>>,
      <<60, 115, 118, 103>>, <<208, 207, 17, 224>>, <<80, 75, 3, 4>> }
BeginsWithSignature(f) ==
    \E sig \in ByteSignatures : LeadingBytes(f, Len(sig)) = sig /\ FileSize(f) >= Len(sig)

\* C6: the magic-number check passes if and only if the file begins with one
\* of the six signatures; every other file, one shorter than a signature
\* included, gets 'File signature mismatch' and is rejected.
C6_MagicNumbers ==
    vpc = "done" =>
        /\ ArrayIncludes(result.errors, "File signature mismatch")
              <=> ~BeginsWithSignature(file)
        /\ ~BeginsWithSignature(file) => ~result.isValid

\* a two-byte file FF D8, shorter than the JPEG signature, was rejected
C6_Witness ==
    /\ vpc = "done"
    /\ FileSize(file) = 2
    /\ LeadingBytes(file, 2) = <<255, 216>>
    /\ ArrayIncludes(result.errors, "File signature mismatch")
    /\ ~result.isValid

AllowedMimeTypes ==
    { "application/pdf",
      "image/jpeg", "image/jpg", "image/png", "image/svg+xml", "image/tiff",
      "application/msword",
      "application/vnd.openxmlformats-officedocument.wordprocessingml.document",
      "application/vnd.ms-excel",
      "application/vnd.openxmlformats-officedocument.spreadsheetml.sheet",
      "application/vnd.ms-powerpoint",
      "application/vnd.openxmlformats-officedocument.presentationml.presentation" }

\* C7: 'File MIME type not allowed' is among the reasons unless the declared
\* type is one of the allowed PDF, image and Office types; a file with an
\* empty or unknown declared type is rejected whatever its name and signature.
C7_MimeAllowList ==
    vpc = "done" =>
        /\ ArrayIncludes(result.errors, "File MIME type not allowed")
              <=> (file.type \notin AllowedMimeTypes)
        /\ file.type \notin AllowedMimeTypes => ~result.isValid

\* a.pdf beginning with %PDF, declared with the empty type, was rejected for
\* its type alone
C7_Witness ==
    /\ vpc = "done"
    /\ file.type = ""
    /\ file.name = <<"a",".","p","d","f">>
    /\ LeadingBytes(file, 4) = <<37, 80, 68, 70>>
    /\ result.errors = <<"File MIME type not allowed">>
    /\ ~result.isValid

----------------------------------------------------------------------------
(* Properties of convertImagesToPdf, under SpecConvert *)

\* C8: n >= 1 decodable images give a document of exactly n pages, page k
\* holding the k-th image of the list and nothing else.
C8_OnePagePerImage ==
    (cpc = "resolved" /\ Len(images) >= 1) =>
        /\ Len(blob) = Len(images)
        /\ \A k \in 1..Len(images) :
              Len(blob[k]) = 1 /\ blob[k][1].image = images[k]

\* three images were converted
C8_Witness ==
    /\ cpc = "resolved"
    /\ Len(images) = 3
    /\ Len(blob) = 3

\* the images placed so far
Placed == UNION { { pdf[k][j] : j \in 1..Len(pdf[k]) } : k \in 1..Len(pdf) }

C10_FailureAbortsBatch ==
    failure # "none" =>
        /\ cpc = "rejected"
        /\ blob = NoBlob
        /\ \A k \in 1..Len(images) : attempts[k] <= 1
        /\ \A k \in 1..Len(images) : k > i + 1 => attempts[k] = 0

\* the second of three images failed to decode after the first was placed
C10_Witness ==
    /\ failure = "decode"
    /\ cpc = "rejected"
    /\ Len(images) = 3
    /\ i = 1
    /\ Len(pdf[1]) = 1
    /\ blob = NoBlob



----------------------------------------------------------------------------
(* Properties of the main.js page, under SpecMain *)

\* the states in which a convertImagesToPdf call is under way or has resolved
Converting == cpc \in {"loop", "read", "load", "place", "resolved"}

\* C11: no call path yields a document or a download link from an empty image
\* list. Every convertImagesToPdf call the page makes, and so every blob it
\* resolves with, is on at least one image, and every download link shown
\* points to a blob converted from at least one image.
C11_NoDocumentFromNoImages ==
    /\ Converting => Len(images) >= 1
    /\ cpc = "resolved" => blob # NewPdf
    /\ href # NoLink => href.images >= 1

\* Process was clicked with a tool chosen and nothing selected: the handler
\* alerted and returned, and no conversion was started
C11_Witness ==
    /\ mpc = "returned"
    /\ alerted = "Please select files"
    /\ selectedTool = "image-to-pdf"
    /\ Len(selectedFiles) = 0
    /\ ~Converting

\* C16: every object URL created to deliver a result blob is revoked. Read in
\* the way most favourable to the page: the URL the download link points to
\* may still be live, and every other object URL created has been revoked.
C16_ObjectUrlsRevoked ==
    objectUrls <= (IF href # NoLink THEN 1 ELSE 0)


----------------------------------------------------------------------------
(* Properties of FlipFile's processing runs, under SpecFlipFile *)

\* the live interval timers of run r
TimersOf(r) == { t \in intervals : t.run = r }

Processed(f) == fileData[f].status = "processed"

\* C12: within one run, files are processed one at a time in list order. A
\* run never has two interval timers; the file in progress is the one at the
\* loop's index, and it was started only after the run marked every file
\* before it 'processed'; on a list nobody replaced, those are the files at
\* the earlier indices, in order.
C12_SequentialInOrder ==
    \A r \in DOMAIN runs :
        /\ Cardinality(TimersOf(r)) <= 1
        /\ \A t \in TimersOf(r) :
              /\ t.index = runs[r].index
              /\ Len(runs[r].done) = t.index
              /\ \A k \in 1..Len(runs[r].done) : Processed(runs[r].done[k])
              /\ currentFiles = runs[r].files =>
                    /\ t.file = runs[r].files[t.index + 1]
                    /\ runs[r].done = SubSeq(runs[r].files, 1, t.index)

\* an undisturbed run is part-way through its second file, the first one
\* marked 'processed' and the second still 'pending'
C12_Witness ==
    \E t \in intervals :
        /\ t.index = 1
        /\ t.step >= 1
        /\ ~runs[t.run].interrupted
        /\ currentFiles = runs[t.run].files
        /\ Processed(runs[t.run].files[1])
        /\ ~Processed(t.file)

\* C13: once cancelProcessing has run while a run was in progress, that run
\* makes no further progress update (no step of a timer of it), marks no
\* further file 'processed' and never reaches completeProcessing.
C13_CancelStopsRun ==
    [][\A r \in DOMAIN runs :
          runs[r].cancelled =>
              /\ runs'[r].done = runs[r].done
              /\ runs'[r].pc # "completed"
              /\ \A t \in TimersOf(r) : \A u \in intervals' :
                    u.run = r => (u.index = t.index /\ u.step <= t.step)]_vars

\* C18: no two runs execute in parallel. At most one run has a live progress
\* timer, and a processFiles call made while isProcessing is true changes
\* nothing.
C18_NoParallelRuns ==
    /\ [](Cardinality({ t.run : t \in intervals }) <= 1)
    /\ [][(isProcessing /\ ProcessFiles) => UNCHANGED vars]_vars

\* C20: a run that no cancel, download or new selection interrupted finishes.
\* As the final result: when such a run is no longer awaiting a file, it has
\* reached completeProcessing and every file it started on is 'processed'.
C20_UninterruptedRunFinishes ==
    \A r \in DOMAIN runs :
        (~runs[r].interrupted /\ runs[r].pc # "await") =>
            /\ runs[r].pc = "completed"
            /\ \A k \in 1..Len(runs[r].files) : Processed(runs[r].files[k])


----------------------------------------------------------------------------
(* Properties of the drop zone and the memory monitor, under SpecDropZone *)

\* C14: whenever isMemoryCritical() is true at the moment files arrive, by
\* drop or by the file input, no file is handed to the processor.
C14_MemoryGate ==
    \A k \in DOMAIN ops : isMemoryCritical(ops[k].heap) => ops[k].calls = 0

\* C15: isMemoryCritical returns true iff a heap sample is available and the
\* used heap is strictly above 90% of 500 MiB (450 MiB = 471859200 bytes).
\* Seen on the drops, which isMemoryCritical gates: a drop is refused iff its
\* sample exists and exceeds 450 MiB.
C15_CriticalIffAbove90Percent ==
    \A k \in DOMAIN ops :
        ops[k].by = "drop" =>
            (ops[k].state = "refused"
                <=> (ops[k].heap # NoSample /\ ops[k].heap > 450 * 1024 * 1024))

\* a drop at exactly 450 MiB was let through, one a byte above it was refused
C15_Witness ==
    /\ Len(ops) = 2
    /\ ops[1].by = "drop" /\ ops[1].heap = 450 * 1024 * 1024
    /\ ops[1].state # "refused"
    /\ ops[2].by = "drop" /\ ops[2].heap = 450 * 1024 * 1024 + 1
    /\ ops[2].state = "refused"

----------------------------------------------------------------------------
(* Properties of the service worker's fetch handler, under SpecWorker *)

\* C17: the fetch handler is cache-first with network fallback. For a handled
\* request with a cached match, that cached response is returned and the
\* network is not contacted; the network is fetched only when there is no
\* cached match, and the response it then gives is the one returned.
C17_CacheFirst ==
    /\ (spc = "responded" /\ matched # NoResponse) =>
          (returned = matched /\ returned.source = "cache" /\ ~netContacted)
    /\ netContacted => matched = NoResponse
    /\ (spc = "responded" /\ matched = NoResponse) => netContacted
    /\ (spc = "responded" /\ fetched.source = "network") =>
          (returned = fetched /\ returned.url = request.url)

\* the site has been redeployed, and a request with a cached match was still
\* answered with the older cached response, the network left alone
C17_Witness ==
    /\ spc = "responded"
    /\ matched # NoResponse
    /\ returned = matched
    /\ returned.version < server
    /\ ~netContacted


----------------------------------------------------------------------------
(* Further properties of validateFile, under SpecValidator *)

\* a name whose extension is ext, in any letter case
HasExtension(name, ext) ==
    HasDot(name) /\ Last(split(toLowerCase(name), ".")) = ext

\* no '/JavaScript', '/JS' or '/AA', in any letter case, anywhere in the file
NoScriptMarkers(f) ==
    LET text == readAsText(Content(f))
    IN  /\ ~ContainsMarker(text, <<47, 106, 97, 118, 97, 115, 99, 114, 105, 112, 116>>)
        /\ ~ContainsMarker(text, <<47, 106, 115>>)
        /\ ~ContainsMarker(text, <<47, 97, 97>>)

\* C21: a well-formed PDF is accepted at every size up to the ceiling. A file
\* named *.pdf, declared application/pdf, of at most 100 MiB, that begins with
\* '%PDF', ends with '%%EOF' and has no script marker gets isValid true and
\* no reasons, also when it is larger than 100 KiB.
C21_WellFormedPdfAccepted ==
    (/\ vpc = "done"
     /\ HasExtension(file.name, <<"p","d","f">>)
     /\ file.type = "application/pdf"
     /\ FileSize(file) <= 100 * 1024 * 1024
     /\ StartsWith(Content(file), <<37, 80, 68, 70>>)
     /\ EndsWith(Content(file), <<37, 37, 69, 79, 70>>)
     /\ NoScriptMarkers(file)) =>
        (result.isValid /\ result.errors = <<>>)

\* C25: the allow-lists agree with the signature table. For every allowed
\* extension with its allowed MIME type, a file of that format, beginning
\* with the bytes files of that format begin with, is accepted.
C25_AllowedFormatsAccepted ==
    (/\ vpc = "done"
     /\ \E fm \in Formats :
           /\ HasExtension(file.name, fm.ext)
           /\ file.type = fm.type
           /\ LeadingBytes(file, 4) = fm.sig
     /\ EndsWith(Content(file), <<37, 37, 69, 79, 70>>)
     /\ FileSize(file) <= 1024) =>
        result.isValid

\* C26: validateFile always settles with a result, also for a file whose
\* bytes cannot be read. As the final result: when no step of validateFile is
\* left to take, it has returned {isValid, errors}.
C26_AlwaysSettles ==
    (~ENABLED NextValidator) => vpc = "done"


----------------------------------------------------------------------------
(* Further properties of FlipFile, under SpecFlipFile *)

\* the selection holds a file added after n files had been added
SelectedAfter(n) == \E k \in 1..Len(currentFiles) : currentFiles[k] > n

\* the step cancels a run started on files added after n files had been added
CancelsRunAfter(n) ==
    \E r \in DOMAIN runs :
        /\ ~runs[r].cancelled /\ runs'[r].cancelled
        /\ \E k \in 1..Len(runs[r].files) : runs[r].files[k] > n

\* C22: delayed clean-up only affects the selection it was scheduled for. When
\* the 5-minute deletion timer of completeProcessing or the 2-second reset of
\* downloadProcessedFile fires, it neither empties a selection made after the
\* timer was set nor cancels a run started on such a selection.
C22_CleanUpOnlyItsSelection ==
    [][ /\ Len(deleteTimers') < Len(deleteTimers) =>
              ~SelectedAfter(Head(deleteTimers))
        /\ Len(resetTimers') < Len(resetTimers) =>
              /\ ~SelectedAfter(Head(resetTimers))
              /\ ~CancelsRunAfter(Head(resetTimers)) ]_vars

\* C23: the files of a run are fixed when the run starts. While a run that
\* was not cancelled awaits a file, that file is the next one of the list the
\* run started with, and every progress update the run makes divides by the
\* length of that list, whatever handleFiles selected in the meantime.
C23_RunFilesFixedAtStart ==
    [][ /\ \A t \in intervals' :
              (runs'[t.run].pc = "await" /\ ~runs'[t.run].cancelled) =>
                  /\ t.index < Len(runs'[t.run].files)
                  /\ t.file = runs'[t.run].files[t.index + 1]
        /\ \A t \in intervals \ intervals' :
              (isProcessing /\ ~runs[t.run].cancelled) =>
                  progress'.den = Len(runs[t.run].files) * totalTime ]_vars


\* file lists handleFiles may be given: the files above and a small PDF
FileLists ==
    UNION { [1..n -> FFFiles \cup { [size |-> 1, type |-> "application/pdf"] }] :
              n \in 0..MaxSelect }

\* the {size, type} of the selected files, in the order of state.currentFiles
SelectedFiles(selection, data) ==
    [k \in 1..Len(selection) |->
        [size |-> data[selection[k]].size, type |-> data[selection[k]].type]]

\* what the claim says handleFiles(files) leaves as selection and fileData
LeavesRight(files, selection, data) ==
    IF files = <<>>
    THEN selection = currentFiles
    ELSE /\ SelectedFiles(selection, data) =
                SelectSeq(files, LAMBDA f :
                    /\ f.size <= 100 * 1024 * 1024
                    /\ ArrayIncludes(allowedFileTypes, f.type))
         /\ \A k \in 1..Len(selection) :
                /\ selection[k] > Len(fileData)
                /\ data[selection[k]].status = "pending"

\* C24: every entry of state.currentFiles has size <= 100 MiB, a type of
\* config.allowedFileTypes and status 'pending' or 'processed'; from every
\* reachable state, handleFiles with a non-empty list leaves as selection
\* exactly the accepted files of that list, in input order, all new and
\* 'pending', and handleFiles with an empty list leaves the selection as it is.
C24_SelectionInvariant ==
    /\ \A k \in 1..Len(currentFiles) :
          /\ fileData[currentFiles[k]].size <= 100 * 1024 * 1024
          /\ ArrayIncludes(allowedFileTypes, fileData[currentFiles[k]].type)
          /\ fileData[currentFiles[k]].status \in {"pending", "processed"}
    /\ \A files \in FileLists :
          LeavesRight(files, handleFiles(files).currentFiles,
                      handleFiles(files).fileData)

\* a second selection of two files, the first processed and the second not
\* yet, after a file was refused
C24_Witness ==
    /\ Len(currentFiles) = 2
    /\ currentFiles[1] > 1
    /\ fileData[currentFiles[1]].status = "processed"
    /\ fileData[currentFiles[2]].status = "pending"
    /\ isProcessing


----------------------------------------------------------------------------
(* Further properties of the service worker, under SpecWorker *)

\* C27: after the activate step, every cache whose name differs from the
\* current CACHE_NAME has been deleted and the current cache is kept, with
\* what the install put into it: only the current version's cache remains.
C27_ActivateKeepsCurrentCacheOnly ==
    [][ active' # active =>
          /\ cacheNames' = {active'}
          /\ active' \in cacheNames
          /\ cache'[active'] = cache[active']
          /\ \A n \in CacheNames \ {active'} : cache'[n] = NoEntries ]_vars

\* the third script is activated after an install of it had failed: the
\* caches of the first and the second script are gone, its own is filled
C27_Witness ==
    /\ active = MaxVersion
    /\ cacheNames = {MaxVersion}
    /\ \A u \in PRECACHE_ASSETS : cache[MaxVersion][u] > 0
    /\ cache[1] = NoEntries

\* C28: every asset of PRECACHE_ASSETS, precached at install, is served from
\* the cache by the fetch handler of sw.js, the cross-origin ones included:
\* once the handler is done with a request for one, the cached response was
\* given to respondWith and the network was not needed.
C28_PrecachedAssetsServed ==
    (/\ worker = "sw.js"
     /\ request.url \in PRECACHE_ASSETS
     /\ spc \in {"responded", "unhandled"}) =>
        (spc = "responded" /\ returned.source = "cache" /\ ~netContacted)

\* C29: in sw.js a handled same-origin request always gets a response. With
\* no cached match and the fetch failed, a navigation gets the cached '/'
\* page and any other request the 'You are offline' response; respondWith is
\* never given a rejection or undefined; a 200 response fetched from the
\* network is put into the current cache (the put is pending or done).
C29_AlwaysAnswered ==
    /\ []((worker = "sw.js" /\ spc = "responded") =>
            /\ returned # NoResponse
            /\ returned.source # "error"
            /\ fetched.source = "error" =>
                  IF request.mode = "navigate"
                  THEN returned.source = "cache" /\ returned.url = "/"
                  ELSE returned.source = "offline")
    /\ [][ /\ (/\ worker = "sw.js"
               /\ spc = "fetching" /\ spc' = "responded"
               /\ fetched'.source = "network" /\ fetched'.status = 200) =>
                  fetched' \in puts'
           /\ \A p \in puts \ puts' :
                  active' = active =>
                      (active \in cacheNames' /\ cache'[active][p.url] = p.version)
         ]_vars

\* offline, a navigation to a page that is not cached was answered with the
\* cached '/' page
C29_Witness ==
    /\ worker = "sw.js"
    /\ spc = "responded"
    /\ request.mode = "navigate"
    /\ matched = NoResponse
    /\ fetched.source = "error"
    /\ returned.source = "cache"
    /\ returned.url = "/"


----------------------------------------------------------------------------
(* Properties of session restore, under SpecSession *)

\* the age of the saved session, its timestamp read as the code reads it
\* (none, or 0, is 1970); none for a timestamp that is no number
SessionAge(text) ==
    IF Member(text, "timestamp").t = "string" THEN 0
    ELSE now - OrZero(Member(text, "timestamp"))

\* C30: session restore in initSession. With a saved session (a non-empty
\* text under 'flipfile_session') that does not parse, or whose timestamp is
\* more than sessionDuration = 30 minutes old, processedCount is 0 afterwards
\* and the stored session is removed; otherwise processedCount is the saved
\* count; with no saved session it stays 0.
C30_SessionRestore ==
    [][ (sessionPc = "loading" /\ sessionPc' = "ready") =>
          IF storage \in {NoItem, <<>>}
          THEN processedCount' = 0 /\ storage' = storage
          ELSE IF ~Parses(storage) \/ SessionAge(storage) > 30 * 60 * 1000
          THEN processedCount' = 0 /\ storage' = NoItem
          ELSE processedCount' = OrZero(Member(storage, "processedCount")) ]_vars

\* a session saved by this page with a count of two, exactly 30 minutes
\* before the page was loaded again, was restored
C30_Witness ==
    /\ sessionPc = "ready"
    /\ runs = <<>>
    /\ processedCount = 2
    /\ storage = JSONstringify(2, now - SessionMs)
    /\ now > Epoch

====
